---- MODULE Spec2Model ----
(***************************************************************************)
(* TravelGuard: the decision-and-scoring controller.                       *)
(*                                                                         *)
(*   analyze.py  calculate_total_score, should_analyze_country,            *)
(*               analyze_country, store_analysis, analyze_country_layers,  *)
(*               main (fan-out over countries)                             *)
(*   trigger.py  load_headlines, get_new_headlines, triage_headlines,      *)
(*               run_full_analysis, save_current_headlines_as_previous,    *)
(*               main                                                      *)
(*                                                                         *)
(* Each subsystem has its own specification over the same variables:       *)
(*   SpecScore    calculate_total_score applied to a category record       *)
(*   SpecStale    should_analyze_country applied to a store/file state     *)
(*   SpecFanout   analyze.main's thread pool over analyze_country_layers   *)
(*   SpecTrigger  repeated runs of trigger.main                            *)
(***************************************************************************)
EXTENDS Integers, Sequences, FiniteSets, TLC

VARIABLES
    category_scores,        \* calculate_total_score: the dict it is given
    total_score,            \* calculate_total_score: what the call produced
    scores,                 \* the store's "scores" table, a set of rows
    store_ok,               \* whether the store answers (FALSE: its calls raise)
    clock,                  \* datetime.now(timezone.utc), in ticks
    latest_headlines_file,  \* latest_headlines.json
    decision,               \* should_analyze_country: what the call produced
    previous_headlines_file,\* previous_headlines.json
    tpc,                    \* trigger.main: where the run is
    failure,                \* trigger.main: what failed in the run, uncaught or caught
    all_headlines,          \* trigger.main: what load_headlines returned
    new_headlines,          \* trigger.main: what get_new_headlines returned
    triage_response,        \* what the Reasoning Service answered the triage request
    triage_calls,           \* the triage requests of this run: the headlines each showed
    triage,                 \* trigger.main: (should_trigger, reason)
    success,                \* trigger.main: what run_full_analysis returned
    fpc,                    \* per country: the layer its thread analyses next, or how it ended
    base_analysis,          \* per country: analyze_country_layers' base_analysis
    results,                \* per country: analyze_country_layers' results (the layers)
    events,                 \* per country: the requests issued and rows written, in order
    step_kind,              \* per country and layer: what the services answered
    faults,                 \* how many layer steps met a failing service so far
    reported,               \* per country: what analyze.main printed for its future
    mpc                     \* analyze.main: collecting futures, or past the pool

scoreVars == <<category_scores, total_score>>
staleVars == <<scores, store_ok, clock, latest_headlines_file, decision>>
trigLocals == <<all_headlines, new_headlines, triage_response, triage_calls, triage, success>>
trigVars == <<previous_headlines_file, tpc, failure, trigLocals>>
fanVars == <<fpc, base_analysis, results, events, step_kind, faults, reported, mpc>>
vars == <<scoreVars, staleVars, trigVars, fanVars>>

(***************************************************************************)
(* JSON values as the code sees them.  A dict is a function whose DOMAIN   *)
(* is the set of keys present; a category value is a string, and JsonList  *)
(* stands for a JSON array in that place (a Python list: unhashable).      *)
(***************************************************************************)
JsonList == "[list]"

Labels == {"GREEN", "YELLOW", "ORANGE", "RED", "PURPLE"}

\* values a category field of a parsed response may carry
CategoryValues == Labels \cup {"BLUE", JsonList}

IsHashable(v) == v # JsonList

\* dict.get(key, default)
DictGet(d, k, default) == IF k \in DOMAIN d THEN d[k] ELSE default

(***************************************************************************)
(* calculate_total_score                                                   *)
(***************************************************************************)
veto_categories == <<"armed_conflict", "regional_instability", "terrorism", "civil_strife">>

all_categories == <<"armed_conflict", "regional_instability", "terrorism", "civil_strife",
                    "crime", "health", "infrastructure">>

Categories == {all_categories[i] : i \in 1..Len(all_categories)}

VetoSet == {veto_categories[i] : i \in 1..Len(veto_categories)}

\* level_hierarchy.get(score, 1)
level_hierarchy(score) ==
    CASE score = "GREEN"  -> 1
      [] score = "YELLOW" -> 2
      [] score = "ORANGE" -> 3
      [] score = "RED"    -> 4
      [] score = "PURPLE" -> 5
      [] OTHER            -> 1

reverse_hierarchy(n) ==
    CASE n = 1 -> "GREEN"
      [] n = 2 -> "YELLOW"
      [] n = 3 -> "ORANGE"
      [] n = 4 -> "RED"
      [] n = 5 -> "PURPLE"

TypeError == "TypeError"

\* the outcome of a loop: a value, or the TypeError it raised
Value(v) == [raised |-> FALSE, value |-> v]
Raised == [raised |-> TRUE, value |-> 0]

\* VetoLoop without the comparison with max_veto_level: the last RED or
\* PURPLE veto category wins, not the highest
RECURSIVE VetoLoop_LastWins(_, _, _)
VetoLoop_LastWins(cs, i, max_veto_level) ==
    IF i > Len(veto_categories) THEN Value(max_veto_level)
    ELSE LET score == DictGet(cs, veto_categories[i], "GREEN") IN
         IF ~IsHashable(score) THEN Raised
         ELSE LET level_value == level_hierarchy(score) IN
              IF level_value >= 4
              THEN VetoLoop_LastWins(cs, i + 1, level_value)
              ELSE VetoLoop_LastWins(cs, i + 1, max_veto_level)

\* VetoLoop keeping the first RED or PURPLE veto category it meets
RECURSIVE VetoLoop_FirstWins(_, _, _)
VetoLoop_FirstWins(cs, i, max_veto_level) ==
    IF i > Len(veto_categories) THEN Value(max_veto_level)
    ELSE LET score == DictGet(cs, veto_categories[i], "GREEN") IN
         IF ~IsHashable(score) THEN Raised
         ELSE LET level_value == level_hierarchy(score) IN
              IF level_value >= 4 /\ max_veto_level < 4
              THEN VetoLoop_FirstWins(cs, i + 1, level_value)
              ELSE VetoLoop_FirstWins(cs, i + 1, max_veto_level)

\* the first loop: max_veto_level after veto_categories[i..]; it raises
\* when level_hierarchy.get meets an unhashable score
RECURSIVE VetoLoop(_, _, _)
VetoLoop(cs, i, max_veto_level) ==
    IF i > Len(veto_categories) THEN Value(max_veto_level)
    ELSE LET score == DictGet(cs, veto_categories[i], "GREEN") IN
         IF ~IsHashable(score) THEN Raised
         ELSE LET level_value == level_hierarchy(score) IN
              IF level_value >= 4 /\ level_value > max_veto_level
              THEN VetoLoop(cs, i + 1, level_value)
              ELSE VetoLoop(cs, i + 1, max_veto_level)

\* the second loop: <<weighted_sum, total_weight>> after all_categories[i..]
RECURSIVE WeightedLoop(_, _, _, _)
WeightedLoop(cs, i, weighted_sum, total_weight) ==
    IF i > Len(all_categories) THEN Value(<<weighted_sum, total_weight>>)
    ELSE LET category == all_categories[i]
             score    == DictGet(cs, category, "GREEN") IN
         IF ~IsHashable(score) THEN Raised
         ELSE LET level_value == level_hierarchy(score)
                  weight      == IF category \in VetoSet THEN 2 ELSE 1 IN
              WeightedLoop(cs, i + 1, weighted_sum + level_value * weight,
                           total_weight + weight)

\* Quantize with the midpoints 1.5, 2.5, 3.5, 4.5 for thresholds
Quantize_Midpoints(weighted_sum, total_weight) ==
    IF      10 * weighted_sum <= 15 * total_weight THEN "GREEN"
    ELSE IF 10 * weighted_sum <= 25 * total_weight THEN "YELLOW"
    ELSE IF 10 * weighted_sum <= 35 * total_weight THEN "ORANGE"
    ELSE IF 10 * weighted_sum <= 45 * total_weight THEN "RED"
    ELSE "PURPLE"

\* avg = weighted_sum / total_weight compared with 1.4, 2.4, 3.4, 4.4: both
\* sides times 10 * total_weight.  No weighted mean over 11 lies within a
\* rounding error of a threshold (n/11 = k.4 has no integer solution n).
Quantize(weighted_sum, total_weight) ==
    IF      10 * weighted_sum <= 14 * total_weight THEN "GREEN"
    ELSE IF 10 * weighted_sum <= 24 * total_weight THEN "YELLOW"
    ELSE IF 10 * weighted_sum <= 34 * total_weight THEN "ORANGE"
    ELSE IF 10 * weighted_sum <= 44 * total_weight THEN "RED"
    ELSE "PURPLE"

\* a rating label, or TypeError when the call raises
calculate_total_score(cs) ==
    LET veto == VetoLoop(cs, 1, 1) IN
    IF veto.raised THEN TypeError
    ELSE IF veto.value >= 4 THEN reverse_hierarchy(veto.value)
    ELSE LET sums == WeightedLoop(cs, 1, 0, 0) IN
         IF sums.raised THEN TypeError
         ELSE Quantize(sums.value[1], sums.value[2])

NotScored == "not scored"

ScoreIdle == category_scores = <<>> /\ total_score = NotScored

(***************************************************************************)
(* Time.  The code reads wall-clock datetimes; the model counts ticks of   *)
(* TickHours hours, 0..MaxTick.                                            *)
(***************************************************************************)
TickHours == 12
MaxTick == 3
Times == 0..MaxTick

NumCountries == 2
Countries == 1..NumCountries

\* the layers with a dependent one ahead of the base layer
Layers_DependentFirst == <<"jewish_israeli", "base", "solo_women">>

Layers == <<"base", "jewish_israeli", "solo_women">>
LayerSet == {Layers[i] : i \in 1..Len(Layers)}

(***************************************************************************)
(* latest_headlines.json: missing, or its content.  "empty" is a blank     *)
(* file, "notjson" text json.load rejects, "nonrecord" valid JSON that is  *)
(* no object (a list).  A record carries "timestamp" and "headlines".      *)
(* Its headlines are a list of strings, or absent (no key), null, a        *)
(* number other than 0, or a string (in v, its characters).                *)
(* The timestamp is absent (no key, null or ""), a string fromisoformat    *)
(* rejects ("unparseable"), an ISO time without offset ("naive") or one    *)
(* with an offset ("aware").                                               *)
(***************************************************************************)
NoTimestamp == [k |-> "absent", t |-> 0]
BadTimestamp == [k |-> "unparseable", t |-> 0]
Timestamps == {NoTimestamp, BadTimestamp} \cup [k : {"naive", "aware"}, t : Times]

HeadlineList(hs) == [k |-> "list", v |-> hs]
NoHeadlines == [k |-> "absent", v |-> <<>>]

FileOfKind(kind) == [kind |-> kind, timestamp |-> NoTimestamp, headlines |-> NoHeadlines]
MissingFile == FileOfKind("missing")
RecordFile(ts, hs) == [kind |-> "record", timestamp |-> ts, headlines |-> hs]

(***************************************************************************)
(* Text.  A string the code takes apart is a sequence of one-character     *)
(* strings.                                                                *)
(***************************************************************************)
NL == "\n"

LowerCase == <<"t", "h", "r", "e", "a", "s", "f", "n", "o", "x">>
UpperCase == <<"T", "H", "R", "E", "A", "S", "F", "N", "O", "X">>

\* str.upper, one character
UpperChar(ch) ==
    IF \E i \in 1..Len(LowerCase) : LowerCase[i] = ch
    THEN UpperCase[CHOOSE i \in 1..Len(LowerCase) : LowerCase[i] = ch]
    ELSE ch

\* str.upper
Upper(text) == [i \in 1..Len(text) |-> UpperChar(text[i])]

IsSpace(ch) == ch \in {" ", NL}

\* str.strip
RECURSIVE Strip(_)
Strip(text) ==
    IF text = <<>> THEN text
    ELSE IF IsSpace(Head(text)) THEN Strip(Tail(text))
    ELSE IF IsSpace(text[Len(text)]) THEN Strip(SubSeq(text, 1, Len(text) - 1))
    ELSE text

\* str.startswith
StartsWith(text, prefix) ==
    /\ Len(text) >= Len(prefix)
    /\ SubSeq(text, 1, Len(prefix)) = prefix

\* result.split("\n", 1)[1] if "\n" in result else result
AfterFirstLine(text) ==
    IF \E i \in 1..Len(text) : text[i] = NL
    THEN LET i == CHOOSE j \in 1..Len(text) :
                      text[j] = NL /\ \A k \in 1..(j - 1) : text[k] # NL
         IN SubSeq(text, i + 1, Len(text))
    ELSE text

(***************************************************************************)
(* load_headlines                                                          *)
(***************************************************************************)
Returned(v) == [raised |-> FALSE, value |-> v]
Uncaught == [raised |-> TRUE, value |-> <<>>]

\* only FileNotFoundError and JSONDecodeError are caught: data.get on JSON
\* that is no object raises AttributeError through the caller.  A headlines
\* value that is absent, null or [] is falsy.
load_headlines(file) ==
    IF file.kind \in {"missing", "empty", "notjson"} THEN Returned(<<>>)
    ELSE IF file.kind = "nonrecord" THEN Uncaught
    ELSE IF file.headlines.k \in {"absent", "null"} THEN Returned(<<>>)
    ELSE Returned(file.headlines.v)

(***************************************************************************)
(* get_new_headlines                                                       *)
(***************************************************************************)
SeqToSet(q) == {q[i] : i \in 1..Len(q)}

\* Filter appending in front: the new headlines in reverse order
RECURSIVE Filter_Reversed(_, _)
Filter_Reversed(current_headlines, previous_headlines) ==
    IF current_headlines = <<>> THEN <<>>
    ELSE LET h == Head(current_headlines)
             rest == Filter_Reversed(Tail(current_headlines), previous_headlines) IN
         IF h \notin previous_headlines THEN rest \o <<h>> ELSE rest

\* [h for h in current_headlines if h not in previous_headlines]
RECURSIVE Filter(_, _)
Filter(current_headlines, previous_headlines) ==
    IF current_headlines = <<>> THEN <<>>
    ELSE LET h == Head(current_headlines)
             rest == Filter(Tail(current_headlines), previous_headlines) IN
         IF h \notin previous_headlines THEN <<h>> \o rest ELSE rest

\* a missing file and one json.load rejects (a blank file too) are caught;
\* previous_data.get on a non-object raises AttributeError and set() of null
\* or of a number raises TypeError, neither caught.  set() of a string is the
\* set of its characters.
get_new_headlines(current_headlines, file) ==
    IF file.kind \in {"missing", "empty", "notjson"} THEN Returned(current_headlines)
    ELSE IF file.kind = "nonrecord" THEN Uncaught
    ELSE IF file.headlines.k \in {"null", "number"} THEN Uncaught
    ELSE LET previous_headlines == SeqToSet(file.headlines.v) IN
         Returned(Filter(current_headlines, previous_headlines))

(***************************************************************************)
(* triage_headlines                                                        *)
(***************************************************************************)
TriageCap == 40

ServiceRaises == [kind |-> "raises", text |-> <<>>]
NoText == [kind |-> "none", text |-> <<>>]
Text(t) == [kind |-> "text", text |-> t]

THREAT == <<"T", "H", "R", "E", "A", "T">>
SAFE == <<"S", "A", "F", "E">>

NoCall == [kind |-> "no call", text |-> <<>>]
Verdict(should_trigger, reason) == [should_trigger |-> should_trigger, reason |-> reason]
NoVerdict == Verdict(FALSE, <<"?">>)

\* headlines[:40]
Shown(headlines) ==
    SubSeq(headlines, 1, IF Len(headlines) < TriageCap THEN Len(headlines) ELSE TriageCap)

Contains(text, word) ==
    \E i \in 1..Len(text) :
        i + Len(word) - 1 <= Len(text) /\ SubSeq(text, i, i + Len(word) - 1) = word

\* triage_headlines testing "THREAT" in result.upper() for startswith
triage_headlines_Contains(headlines, response) ==
    IF headlines = <<>> THEN Verdict(FALSE, <<"No headlines to analyze">>)
    ELSE IF response.kind # "text" THEN Verdict(FALSE, <<"Error">>)
    ELSE LET result == Strip(response.text) IN
         Verdict(Contains(Upper(result), THREAT), AfterFirstLine(result))

\* triage_headlines without its test for the empty list
triage_headlines_NoGuard(headlines, response) ==
    IF response.kind # "text" THEN Verdict(FALSE, <<"Error">>)
    ELSE LET result == Strip(response.text) IN
         Verdict(StartsWith(Upper(result), THREAT), AfterFirstLine(result))

\* the try block: response.text.strip() raises AttributeError on a response
\* without text, caught like a failed request
triage_headlines(headlines, response) ==
    IF headlines = <<>> THEN Verdict(FALSE, <<"No headlines to analyze">>)
    ELSE IF response.kind # "text" THEN Verdict(FALSE, <<"Error">>)
    ELSE LET result == Strip(response.text) IN
         Verdict(StartsWith(Upper(result), THREAT), AfterFirstLine(result))

\* main's success before run_full_analysis assigns it
Unset == "unset"

\* main going on to save the headlines without running the analysis
AfterTriage_SkipsAnalysis(should_trigger) == "save"

\* main, lines 228 and 243: the branch taken on should_trigger
AfterTriage(should_trigger) == IF should_trigger THEN "analysis" ELSE "save"

TriggerIdle ==
    /\ previous_headlines_file = MissingFile
    /\ tpc = "idle"
    /\ failure = "none"
    /\ all_headlines = <<>>
    /\ new_headlines = <<>>
    /\ triage_response = NoCall
    /\ triage_calls = <<>>
    /\ triage = NoVerdict
    /\ success = Unset

(***************************************************************************)
(* analyze_country and store_analysis.  One layer step of a country meets  *)
(* the services in one of these ways:                                      *)
(*   good           a record of rating labels, verified, stored            *)
(*   raises         generate_content raises                                *)
(*   notjson        the response text is not JSON                          *)
(*   nonrecord      the response is JSON but no object (a list)            *)
(*   badlabel       a record whose armed_conflict is the string "BLUE"     *)
(*   unhashable     a record whose armed_conflict is a JSON list           *)
(*   empty          the record {}                                          *)
(*   blocked        the verification answers has_critical_issues, CRITICAL *)
(*   blocked nolist the same, with problems that are no list                *)
(*   verify raises  the verification call raises or answers no JSON        *)
(*   store raises   the upsert raises                                      *)
(*   badfile        latest_headlines.json holds no JSON                    *)
(***************************************************************************)
StepKinds == {"good", "raises", "notjson", "nonrecord", "badlabel", "unhashable", "empty",
              "blocked", "blocked nolist", "verify raises", "store raises", "badfile"}

\* the verification answers that take the blocking branch (has_critical_issues
\* true, severity CRITICAL): "blocked" with a list of problems or none,
\* "blocked nolist" with problems null or a number
Blocking == {"blocked", "blocked nolist"}

AllGreen == [c \in Categories |-> "GREEN"]
GoodRecord == [AllGreen EXCEPT !["crime"] = "ORANGE"]
EmptyRecord == [c \in {} |-> "GREEN"]

\* json.loads(response_text), when it returns
ParsedOf(kind) ==
    CASE kind = "badlabel"   -> [AllGreen EXCEPT !["armed_conflict"] = "BLUE"]
      [] kind = "unhashable" -> [AllGreen EXCEPT !["armed_conflict"] = JsonList]
      [] kind = "empty"      -> EmptyRecord
      [] OTHER               -> GoodRecord

None == [isNone |-> TRUE, dict |-> EmptyRecord]
Some(d) == [isNone |-> FALSE, dict |-> d]

\* Python truth of a value that is None or a dict
Truthy(x) == ~x.isNone /\ DOMAIN x.dict # {}

\* analyze_country without its outer except clauses: a raising request or
\* an unparseable response leaves the function
analyze_country_Propagates(kind) ==
    IF kind \in {"badfile", "raises", "notjson", "nonrecord"} THEN Uncaught
    ELSE IF kind = "blocked" THEN Returned(None)
    ELSE Returned(Some(ParsedOf(kind)))

\* what analyze_country returns, or that it raised.  Reading
\* latest_headlines.json catches FileNotFoundError alone and stands before
\* the try block; inside it every exception gives None, a blocking
\* verification gives None, a failed verification keeps the analysis, and
\* analysis.get on JSON that is no object raises AttributeError, caught.
\* The blocking branch iterates over the problems before it returns None:
\* when they are no list the loop raises inside the verification's own try,
\* whose handler proceeds with the analysis.
analyze_country(kind) ==
    IF kind = "badfile" THEN Uncaught
    ELSE IF kind \in {"raises", "notjson"} THEN Returned(None)
    ELSE IF kind = "blocked" THEN Returned(None)
    ELSE IF kind = "blocked nolist" THEN Returned(Some(ParsedOf(kind)))
    ELSE IF kind = "nonrecord" THEN Returned(None)
    ELSE Returned(Some(ParsedOf(kind)))

\* the "Base layer assessment for reference" of a dependent layer's prompt
ContextOf(identity_layer, base) ==
    IF identity_layer = "base" THEN "none"
    ELSE IF Truthy(base) THEN "base scores" ELSE "Not available"

Row(c, l, total, t) == [country_id |-> c, identity_layer |-> l, total_score |-> total, scored_at |-> t]

\* a plain insert
Upsert_Insert(table, row) == table \cup {row}

\* upsert(data, on_conflict="country_id,identity_layer")
Upsert(table, row) ==
    {r \in table : ~(r.country_id = row.country_id /\ r.identity_layer = row.identity_layer)}
        \cup {row}

\* store_analysis: calculate_total_score stands before the try block, so its
\* TypeError leaves the function; a raising upsert gives False
store_analysis(table, country_id, identity_layer, analysis, up, now) ==
    LET total == calculate_total_score(analysis) IN
    IF total = TypeError THEN [raised |-> TRUE, value |-> FALSE, table |-> table]
    ELSE IF ~up THEN [raised |-> FALSE, value |-> FALSE, table |-> table]
    ELSE [raised |-> FALSE, value |-> TRUE,
          table |-> Upsert(table, Row(country_id, identity_layer, total, now))]

MaxFaults == 1

FanoutIdle ==
    /\ fpc = <<>>
    /\ base_analysis = <<>>
    /\ results = <<>>
    /\ events = <<>>
    /\ step_kind = <<>>
    /\ faults = 0
    /\ reported = <<>>
    /\ mpc = "idle"

(***************************************************************************)
(* should_analyze_country                                                  *)
(***************************************************************************)
\* supabase.table("scores").select("scored_at").eq("country_id", country_id)
\*     .order("scored_at", desc=True).limit(1): the scored_at values of the
\* country's rows, of which the caller reads the greatest
ScoredAtOf(table, country_id) == {r.scored_at : r \in {x \in table : x.country_id = country_id}}

Latest(S) == CHOOSE t \in S : \A u \in S : u <= t

Answer(analyze, why) == [analyze |-> analyze, why |-> why]
Undecided == Answer(FALSE, "undecided")

\* the second try block, reached with last_scored_dt at most 24 hours old
CheckHeadlines(file, last_scored_dt) ==
    IF file.kind = "missing" THEN Answer(TRUE, "no headlines file")
    ELSE IF file.kind # "record" THEN Answer(TRUE, "error checking headlines")
    ELSE LET headlines_timestamp == file.timestamp IN
         IF headlines_timestamp.k = "absent" THEN Answer(FALSE, "CACHED no new data")
         ELSE IF headlines_timestamp.k \in {"unparseable", "naive"}
              THEN Answer(TRUE, "error checking headlines")
         ELSE IF headlines_timestamp.t > last_scored_dt THEN Answer(TRUE, "NEW DATA")
         ELSE Answer(FALSE, "CACHED")

\* should_analyze_country answering skip when the lookup fails
should_analyze_country_FailClosed(table, up, file, now, country_id) ==
    IF ~up THEN Answer(FALSE, "could not check history")
    ELSE LET data == ScoredAtOf(table, country_id) IN
         IF data = {} THEN Answer(TRUE, "NEW")
         ELSE LET last_scored_dt == Latest(data)
                  hours_since    == (now - last_scored_dt) * TickHours IN
              IF hours_since > 24 THEN Answer(TRUE, "OLD")
              ELSE CheckHeadlines(file, last_scored_dt)

should_analyze_country(table, up, file, now, country_id) ==
    IF ~up THEN Answer(TRUE, "could not check history")
    ELSE LET data == ScoredAtOf(table, country_id) IN
         IF data = {} THEN Answer(TRUE, "NEW")
         ELSE LET last_scored_dt == Latest(data)
                  hours_since    == (now - last_scored_dt) * TickHours IN
              IF hours_since > 24 THEN Answer(TRUE, "OLD")
              ELSE CheckHeadlines(file, last_scored_dt)

(***************************************************************************)
(* SpecStale: should_analyze_country for country 1, over every table with  *)
(* at most one row per layer of country 1 and a base row of the others.    *)
(***************************************************************************)
StaleIdle ==
    /\ scores = {}
    /\ store_ok = TRUE
    /\ clock = 0
    /\ latest_headlines_file = MissingFile
    /\ decision = Undecided

StaleFiles ==
    {FileOfKind(k) : k \in {"missing", "notjson", "nonrecord"}}
        \cup {RecordFile(ts, HeadlineList(<<>>)) : ts \in Timestamps}

StaleInit ==
    /\ \E own \in [LayerSet -> Times \cup {-1}], other \in [Countries \ {1} -> Times \cup {-1}] :
          scores = {Row(1, l, "GREEN", own[l]) : l \in {x \in LayerSet : own[x] >= 0}}
                   \cup {Row(c, "base", "GREEN", other[c]) :
                            c \in {x \in Countries \ {1} : other[x] >= 0}}
    /\ store_ok \in BOOLEAN
    /\ clock \in Times
    /\ latest_headlines_file \in StaleFiles
    /\ decision = Undecided
    /\ ScoreIdle
    /\ TriggerIdle
    /\ FanoutIdle

Evaluate ==
    /\ decision = Undecided
    /\ decision' = should_analyze_country(scores, store_ok, latest_headlines_file, clock, 1)
    /\ UNCHANGED <<scores, store_ok, clock, latest_headlines_file, scoreVars, trigVars, fanVars>>

StaleNext == Evaluate

SpecStale == StaleInit /\ [][StaleNext]_vars

(***************************************************************************)
(* SpecScore: every category record with at most MaxMalformed fields       *)
(* missing or not a rating label; Score applies calculate_total_score.     *)
(***************************************************************************)
MaxMalformed == 1

Malformed(cs) == (Categories \ DOMAIN cs) \cup {c \in DOMAIN cs : cs[c] \notin Labels}

ScoreInit ==
    /\ \E D \in SUBSET Categories :
          /\ Cardinality(Categories \ D) <= MaxMalformed
          /\ category_scores \in [D -> CategoryValues]
    /\ Cardinality(Malformed(category_scores)) <= MaxMalformed
    /\ total_score = NotScored
    /\ StaleIdle
    /\ TriggerIdle
    /\ FanoutIdle

Score ==
    /\ total_score = NotScored
    /\ total_score' = calculate_total_score(category_scores)
    /\ UNCHANGED <<category_scores, staleVars, trigVars, fanVars>>

ScoreNext == Score

SpecScore == ScoreInit /\ [][ScoreNext]_vars

(***************************************************************************)
(* SpecTrigger: runs of trigger.main, one after the other, each over the   *)
(* latest_headlines.json the ingestion left.  A run is killed at any step  *)
(* (Kill) or ends by itself.                                               *)
(***************************************************************************)
MaxBatch == 3

HeadlineStrings == {"a", "b", "c"}

RECURSIVE SeqsUpTo(_, _)
SeqsUpTo(S, n) ==
    IF n = 0 THEN {<<>>}
    ELSE LET shorter == SeqsUpTo(S, n - 1) IN
         shorter \cup {Append(q, x) : q \in {y \in shorter : Len(y) = n - 1}, x \in S}

Batches == SeqsUpTo(HeadlineStrings, MaxBatch)

\* a batch of one headline more than triage is shown
LongBatch == [i \in 1..(TriageCap + 1) |-> IF i <= TriageCap THEN "a" ELSE "b"]

LatestFiles ==
    {FileOfKind(k) : k \in {"missing", "empty", "notjson", "nonrecord"}}
        \cup {RecordFile([k |-> "aware", t |-> 0], NoHeadlines)}
        \cup {RecordFile([k |-> "aware", t |-> 0], HeadlineList(hs)) : hs \in Batches \cup {LongBatch}}

PreviousFiles ==
    LatestFiles
        \cup {RecordFile([k |-> "aware", t |-> 0], [k |-> kk, v |-> <<>>]) : kk \in {"null", "number"}}
        \cup {RecordFile([k |-> "aware", t |-> 0], [k |-> "string", v |-> <<"a", "b">>])}

TriageResponses ==
    {ServiceRaises, NoText,
     Text(THREAT \o <<" ", "-", " ", "x", NL, "x">>),
     Text(<<"t", "h", "r", "e", "a", "t">>),
     Text(<<" ", NL>> \o THREAT \o <<NL>>),
     Text(SAFE \o <<NL, "x">>),
     Text(<<>>),
     Text(<<"N", "O", " ">> \o THREAT),
     Text(<<"x", NL>> \o THREAT)}

TriggerInit ==
    /\ latest_headlines_file \in LatestFiles
    /\ previous_headlines_file \in PreviousFiles
    /\ tpc = "load"
    /\ failure = "none"
    /\ all_headlines = <<>>
    /\ new_headlines = <<>>
    /\ triage_response = NoCall
    /\ triage_calls = <<>>
    /\ triage = NoVerdict
    /\ success = Unset
    /\ scores = {} /\ store_ok = TRUE /\ clock = 0 /\ decision = Undecided
    /\ ScoreIdle
    /\ FanoutIdle

trigEnv == <<scoreVars, scores, store_ok, clock, decision, fanVars>>

\* main, lines 205-213
LoadHeadlines ==
    /\ tpc = "load"
    /\ LET r == load_headlines(latest_headlines_file) IN
          IF r.raised
          THEN tpc' = "raised" /\ failure' = "load_headlines" /\ UNCHANGED all_headlines
          ELSE /\ all_headlines' = r.value
               /\ tpc' = IF r.value = <<>> THEN "exited" ELSE "delta"
               /\ UNCHANGED failure
    /\ UNCHANGED <<latest_headlines_file, previous_headlines_file, new_headlines,
                   triage_response, triage_calls, triage, success, trigEnv>>

\* main, lines 216-221
GetNewHeadlines ==
    /\ tpc = "delta"
    /\ LET r == get_new_headlines(all_headlines, previous_headlines_file) IN
          IF r.raised
          THEN tpc' = "raised" /\ failure' = "get_new_headlines" /\ UNCHANGED new_headlines
          ELSE /\ new_headlines' = r.value
               /\ tpc' = IF r.value = <<>> THEN "exited" ELSE "triage"
               /\ UNCHANGED failure
    /\ UNCHANGED <<latest_headlines_file, previous_headlines_file, all_headlines,
                   triage_response, triage_calls, triage, success, trigEnv>>

\* main, lines 224-228: the one request to the Reasoning Service and its answer
TriageHeadlines ==
    /\ tpc = "triage"
    /\ \E response \in TriageResponses :
          /\ triage_response' = IF new_headlines = <<>> THEN NoCall ELSE response
          /\ triage' = triage_headlines(new_headlines, response)
          /\ tpc' = AfterTriage(triage'.should_trigger)
    /\ triage_calls' = IF new_headlines = <<>> THEN triage_calls
                       ELSE Append(triage_calls, Shown(new_headlines))
    /\ UNCHANGED <<latest_headlines_file, previous_headlines_file, failure, all_headlines,
                   new_headlines, success, trigEnv>>

\* run_full_analysis: True when the subprocess ends with code 0; False when
\* it ends with another code, times out or cannot be started
run_full_analysis == {"True", "False"}

\* main, line 234
RunFullAnalysis ==
    /\ tpc = "analysis"
    /\ success' \in run_full_analysis
    /\ tpc' = "save"
    /\ UNCHANGED <<latest_headlines_file, previous_headlines_file, failure, all_headlines,
                   new_headlines, triage_response, triage_calls, triage, trigEnv>>

Saved(file, caught) == [file |-> file, caught |-> caught]

\* save_current_headlines_as_previous writing only what triage was shown
save_current_headlines_as_previous_Shown(headlines, file, now) ==
    {Saved(RecordFile([k |-> "aware", t |-> now], HeadlineList(Shown(headlines))), FALSE),
     Saved(file, TRUE), Saved(FileOfKind("empty"), TRUE)}

\* save_current_headlines_as_previous: the file is written; or open fails
\* and it is left as it was; or the write fails after open truncated it.
\* The exception of a failed open or write is caught and printed.
save_current_headlines_as_previous(headlines, file, now) ==
    {Saved(RecordFile([k |-> "aware", t |-> now], HeadlineList(headlines)), FALSE),
     Saved(file, TRUE), Saved(FileOfKind("empty"), TRUE)}

\* main, lines 237 and 250
SaveCurrentHeadlines ==
    /\ tpc = "save"
    /\ \E saved \in save_current_headlines_as_previous(all_headlines, previous_headlines_file,
                                                       clock) :
          /\ previous_headlines_file' = saved.file
          /\ failure' = IF saved.caught THEN "save_current_headlines_as_previous" ELSE failure
    /\ tpc' = "done"
    /\ UNCHANGED <<latest_headlines_file, trigLocals, trigEnv>>

Running == tpc \in {"load", "delta", "triage", "analysis", "save"}

\* the process is killed between two steps
Kill ==
    /\ Running
    /\ tpc' = "raised"
    /\ failure' = "killed"
    /\ UNCHANGED <<latest_headlines_file, previous_headlines_file, trigLocals, trigEnv>>

\* the process is gone, and its locals with it
ProcessExit ==
    /\ tpc \in {"done", "exited", "raised"}
    /\ tpc' = "idle"
    /\ failure' = "none"
    /\ all_headlines' = <<>>
    /\ new_headlines' = <<>>
    /\ triage_response' = NoCall
    /\ triage_calls' = <<>>
    /\ triage' = NoVerdict
    /\ success' = Unset
    /\ UNCHANGED <<latest_headlines_file, previous_headlines_file, trigEnv>>

\* the next scheduled run, over what the ingestion wrote meanwhile
NextRun ==
    /\ tpc = "idle"
    /\ latest_headlines_file' \in LatestFiles
    /\ tpc' = "load"
    /\ UNCHANGED <<previous_headlines_file, failure, trigLocals, trigEnv>>

TriggerNext ==
    \/ LoadHeadlines
    \/ GetNewHeadlines
    \/ TriageHeadlines
    \/ RunFullAnalysis
    \/ SaveCurrentHeadlines
    \/ Kill
    \/ ProcessExit
    \/ NextRun

SpecTrigger == TriggerInit /\ [][TriggerNext]_vars

(***************************************************************************)
(* SpecTriage: triage_headlines called on its own with every list of up to *)
(* MaxBatch headlines, the empty list among them, and every response.      *)
(***************************************************************************)
TriageInit ==
    /\ new_headlines \in Batches \cup {LongBatch}
    /\ all_headlines = new_headlines
    /\ tpc = "triage"
    /\ latest_headlines_file = MissingFile
    /\ previous_headlines_file = MissingFile
    /\ failure = "none"
    /\ triage_response = NoCall
    /\ triage_calls = <<>>
    /\ triage = NoVerdict
    /\ success = Unset
    /\ scores = {} /\ store_ok = TRUE /\ clock = 0 /\ decision = Undecided
    /\ ScoreIdle
    /\ FanoutIdle

TriageNext == TriageHeadlines

SpecTriage == TriageInit /\ [][TriageNext]_vars

(***************************************************************************)
(* SpecFanout: analyze.main from the point where every country was found   *)
(* to need analysis and submitted to the pool.  Each country's thread runs *)
(* analyze_country_layers, one layer per step; main collects the futures   *)
(* as they complete.  At most MaxFaults layer steps meet a failing service.*)
(***************************************************************************)
PoolCap == 10

\* main's countries_to_analyze: the countries the filter loop kept
countries_to_analyze == {c \in Countries : fpc[c] # "skipped"}

max_workers ==
    IF Cardinality(countries_to_analyze) < PoolCap
    THEN Cardinality(countries_to_analyze) ELSE PoolCap

OldRows == {Row(c, l, "YELLOW", 0) : c \in Countries, l \in LayerSet}

FanoutInit ==
    /\ fpc = [c \in Countries |-> "submitted"]
    /\ base_analysis = [c \in Countries |-> None]
    /\ results = [c \in Countries |-> <<>>]
    /\ events = [c \in Countries |-> <<>>]
    /\ step_kind = [c \in Countries |-> [l \in LayerSet |-> "pending"]]
    /\ faults = 0
    /\ reported = [c \in Countries |-> "pending"]
    /\ mpc = "collecting"
    /\ scores \in {{}, OldRows}
    /\ store_ok = TRUE
    /\ clock = 1
    /\ latest_headlines_file = MissingFile
    /\ decision = Undecided
    /\ ScoreIdle
    /\ TriggerIdle

fanEnv == <<scoreVars, trigVars, store_ok, clock, latest_headlines_file, decision>>

InWorker(c) == fpc[c] \in LayerSet

\* analyze_country_layers runs the layers in the order of Layers and returns
NextLayer(l) ==
    LET i == CHOOSE j \in 1..Len(Layers) : Layers[j] = l IN
    IF i < Len(Layers) THEN Layers[i + 1] ELSE "returned"

Request(l, base) == [e |-> "request", layer |-> l, context |-> ContextOf(l, base)]
Persist(l) == [e |-> "persist", layer |-> l, context |-> "none"]

\* a worker of the pool takes the country's analyze_country_layers
StartCountry(c) ==
    /\ fpc[c] = "submitted"
    /\ Cardinality({d \in Countries : InWorker(d)}) < max_workers
    /\ fpc' = [fpc EXCEPT ![c] = Layers[1]]
    /\ UNCHANGED <<base_analysis, results, events, step_kind, faults, reported, mpc,
                   scores, fanEnv>>

\* analyze_country_layers, lines 551-553 (and 558-560, 565-567): a truthy
\* analysis goes to store_analysis
StoreIfTruthy(table, c, l, analysis, up, now) ==
    IF Truthy(analysis)
    THEN store_analysis(table, c, l, analysis.dict, up, now)
    ELSE [raised |-> FALSE, value |-> FALSE, table |-> table]

\* one layer of analyze_country_layers: analyze_country, and store_analysis
\* of what it returned
AnalyzeLayer(c) ==
    /\ InWorker(c)
    /\ \E kind \in StepKinds :
          /\ kind # "good" => faults < MaxFaults
          /\ faults' = IF kind = "good" THEN faults ELSE faults + 1
          /\ step_kind' = [step_kind EXCEPT ![c][fpc[c]] = kind]
          /\ LET l == fpc[c]
                 asked == Append(events[c], Request(l, base_analysis[c]))
             IN \E analysis \in {analyze_country(kind)} :
                IF analysis.raised
                THEN /\ fpc' = [fpc EXCEPT ![c] = "raised"]
                     /\ UNCHANGED <<base_analysis, results, events, scores>>
                ELSE \E stored \in {StoreIfTruthy(scores, c, l, analysis.value,
                                                  kind # "store raises", clock)} :
                     /\ base_analysis' = IF l = "base"
                                         THEN [base_analysis EXCEPT ![c] = analysis.value]
                                         ELSE base_analysis
                     /\ fpc' = [fpc EXCEPT ![c] = IF stored.raised THEN "raised" ELSE NextLayer(l)]
                     /\ scores' = stored.table
                     /\ events' = [events EXCEPT ![c] =
                           IF stored.value THEN Append(asked, Persist(l)) ELSE asked]
                     /\ results' = [results EXCEPT ![c] =
                           IF stored.value THEN Append(@, l) ELSE @]
    /\ UNCHANGED <<reported, mpc, fanEnv>>

\* the collecting loop without its try: the exception of a country's
\* future leaves main
Collect_NoExcept(c) ==
    /\ mpc = "collecting"
    /\ reported[c] = "pending"
    /\ fpc[c] \in {"returned", "raised"}
    /\ IF fpc[c] = "returned"
       THEN reported' = [reported EXCEPT ![c] = "completed"] /\ mpc' = mpc
       ELSE reported' = reported /\ mpc' = "crashed"
    /\ UNCHANGED <<fpc, base_analysis, results, events, step_kind, faults, scores, fanEnv>>

\* main, lines 638-644: the future of a finished country is taken up
Collect(c) ==
    /\ mpc = "collecting"
    /\ reported[c] = "pending"
    /\ fpc[c] \in {"returned", "raised"}
    /\ reported' = [reported EXCEPT ![c] = IF fpc[c] = "returned" THEN "completed" ELSE "failed"]
    /\ UNCHANGED <<fpc, base_analysis, results, events, step_kind, faults, mpc, scores, fanEnv>>

\* main, lines 646-648: past the loop and the pool's shutdown
Complete ==
    /\ mpc = "collecting"
    /\ \A c \in Countries : reported[c] # "pending"
    /\ mpc' = "complete"
    /\ UNCHANGED <<fpc, base_analysis, results, events, step_kind, faults, reported,
                   scores, fanEnv>>

\* the countries are those main's filter loop went through
FanoutNext ==
    \/ \E c \in DOMAIN fpc : StartCountry(c)
    \/ \E c \in DOMAIN fpc : AnalyzeLayer(c)
    \/ \E c \in DOMAIN fpc : Collect(c)
    \/ Complete

SpecFanout == FanoutInit /\ [][FanoutNext]_vars

(***************************************************************************)
(* SpecRerun: analyze.main invoked again and again.  Each invocation       *)
(* filters the countries with should_analyze_country and fans out over     *)
(* those it kept; between invocations time passes and new headline batches *)
(* arrive.  A skipped country keeps the record of its last analysis.       *)
(***************************************************************************)
RerunInit ==
    /\ FanoutIdle
    /\ scores = {}
    /\ store_ok = TRUE
    /\ clock = 0
    /\ latest_headlines_file \in
          {MissingFile, RecordFile([k |-> "aware", t |-> 0], HeadlineList(<<"a">>))}
    /\ decision = Undecided
    /\ ScoreIdle
    /\ TriggerIdle

NoId == 0

\* get_country_id: the id, or None when the row is not found or the lookup raises
get_country_id(up, c) == IF up THEN c ELSE NoId

Between == mpc \in {"idle", "complete"}

\* main, lines 606-625: the filter loop, and the return when it kept nothing
Invoke ==
    /\ Between
    /\ LET need(c) ==
               /\ get_country_id(store_ok, c) # NoId
               /\ should_analyze_country(scores, store_ok, latest_headlines_file, clock,
                                         get_country_id(store_ok, c)).analyze
           kept(f, c, fresh) == IF need(c) \/ c \notin DOMAIN f THEN fresh ELSE f[c]
       IN /\ fpc' = [c \in Countries |-> IF need(c) THEN "submitted" ELSE "skipped"]
          /\ reported' = [c \in Countries |-> IF need(c) THEN "pending" ELSE "skipped"]
          /\ base_analysis' = [c \in Countries |-> kept(base_analysis, c, None)]
          /\ results' = [c \in Countries |-> kept(results, c, <<>>)]
          /\ events' = [c \in Countries |-> kept(events, c, <<>>)]
          /\ step_kind' = [c \in Countries |-> kept(step_kind, c, [l \in LayerSet |-> "pending"])]
          /\ mpc' = IF \E c \in Countries : need(c) THEN "collecting" ELSE "complete"
    /\ UNCHANGED <<faults, scores, fanEnv>>

\* time passes between two invocations
Tick ==
    /\ Between
    /\ clock < MaxTick
    /\ clock' = clock + 1
    /\ UNCHANGED <<scoreVars, trigVars, fanVars, scores, store_ok, latest_headlines_file,
                   decision>>

\* a new headline batch arrives between two invocations
NewBatch ==
    /\ Between
    /\ latest_headlines_file' = RecordFile([k |-> "aware", t |-> clock], HeadlineList(<<"a">>))
    /\ latest_headlines_file' # latest_headlines_file
    /\ UNCHANGED <<scoreVars, trigVars, fanVars, scores, store_ok, clock, decision>>

RerunNext ==
    \/ Invoke
    \/ FanoutNext
    \/ Tick
    \/ NewBatch

SpecRerun == RerunInit /\ [][RerunNext]_vars

(***************************************************************************)
(* SpecTimeout: trigger.main at run_full_analysis, with analyze.py as its  *)
(* child process.  subprocess.run waits for the child up to its timeout;   *)
(* when the timeout expires it kills the child, and every thread with it.  *)
(***************************************************************************)
TimeoutInit ==
    /\ fpc = [c \in Countries |-> "submitted"]
    /\ base_analysis = [c \in Countries |-> None]
    /\ results = [c \in Countries |-> <<>>]
    /\ events = [c \in Countries |-> <<>>]
    /\ step_kind = [c \in Countries |-> [l \in LayerSet |-> "pending"]]
    /\ faults = 0
    /\ reported = [c \in Countries |-> "pending"]
    /\ mpc = "collecting"
    /\ scores = {}
    /\ store_ok = TRUE
    /\ clock = 1
    /\ latest_headlines_file = RecordFile([k |-> "aware", t |-> 0], HeadlineList(<<"a">>))
    /\ decision = Undecided
    /\ previous_headlines_file = MissingFile
    /\ tpc = "analysis"
    /\ failure = "none"
    /\ all_headlines = <<"a">>
    /\ new_headlines = <<"a">>
    /\ triage_response = Text(THREAT)
    /\ triage_calls = <<Shown(<<"a">>)>>
    /\ triage = triage_headlines(<<"a">>, Text(THREAT))
    /\ success = Unset
    /\ ScoreIdle

\* run_full_analysis, lines 172-183: the child ended by itself within the
\* timeout, with code 0
ChildExits ==
    /\ tpc = "analysis"
    /\ mpc = "complete"
    /\ success' = "True"
    /\ tpc' = "save"
    /\ UNCHANGED <<previous_headlines_file, failure, all_headlines, new_headlines,
                   triage_response, triage_calls, triage, scoreVars, staleVars, fanVars>>

\* run_full_analysis, lines 176 and 188-190: the timeout expires while the
\* child runs; subprocess.run kills the child and raises TimeoutExpired
TimeoutExpired ==
    /\ tpc = "analysis"
    /\ mpc = "collecting"
    /\ mpc' = "killed"
    /\ fpc' = [c \in Countries |-> IF fpc[c] \in {"returned", "raised"} THEN fpc[c] ELSE "killed"]
    /\ success' = "False"
    /\ tpc' = "save"
    /\ UNCHANGED <<previous_headlines_file, failure, all_headlines, new_headlines,
                   triage_response, triage_calls, triage, scoreVars, staleVars,
                   base_analysis, results, events, step_kind, faults, reported>>

TimeoutNext ==
    \/ FanoutNext
    \/ ChildExits
    \/ TimeoutExpired

SpecTimeout == TimeoutInit /\ [][TimeoutNext]_vars

(***************************************************************************)
(* Properties                                                              *)
(***************************************************************************)
RatingOrder == <<"GREEN", "YELLOW", "ORANGE", "RED", "PURPLE">>

RankOf(label) == CHOOSE i \in 1..Len(RatingOrder) : RatingOrder[i] = label

\* a CategoryScores record: seven fields, each a rating label
WellFormed(cs) == DOMAIN cs = Categories /\ \A c \in Categories : cs[c] \in Labels

Scored == total_score # NotScored

\* C1: when some veto category of a CategoryScores record is RED or PURPLE,
\* calculate_total_score returns the rating of the highest-ranked veto
\* category, whatever the other categories hold.
C1_VetoReturnsHighestVeto ==
    (/\ Scored
     /\ WellFormed(category_scores)
     /\ \E c \in VetoSet : category_scores[c] \in {"RED", "PURPLE"})
    => /\ total_score \in {category_scores[c] : c \in VetoSet}
       /\ \A c \in VetoSet : RankOf(category_scores[c]) <= RankOf(total_score)

\* armed_conflict PURPLE, regional_instability RED, all else GREEN: PURPLE
C1_Witness ==
    /\ category_scores = [AllGreen EXCEPT !["armed_conflict"] = "PURPLE",
                                          !["regional_instability"] = "RED"]
    /\ total_score = "PURPLE"

C3_RulesInOrder ==
    (decision # Undecided /\ store_ok)
    => LET data == ScoredAtOf(scores, 1)
           file == latest_headlines_file
       IN decision.analyze =
             \/ data = {}
             \/ (clock - Latest(data)) * TickHours > 24
             \/ /\ file.kind = "record"
                /\ file.timestamp.k \in {"aware", "naive"}
                /\ file.timestamp.t > Latest(data)

Requested(c, l) == \E i \in 1..Len(events[c]) : events[c][i].e = "request" /\ events[c][i].layer = l

\* C4: whatever the Reasoning Service answers for one layer (an error, text
\* that is no JSON, JSON that is no record, a record whose category values
\* are no rating labels), analyze_country_layers does not crash, and when it
\* has ended that layer is absent and every other layer was requested, the
\* dependent layers with the base context "Not available" when the base
\* layer is absent.
C4_BadResponseLeavesLayerAbsent ==
    \A c \in DOMAIN fpc : \A l \in LayerSet :
        step_kind[c][l] \in {"raises", "notjson", "nonrecord", "badlabel", "unhashable"}
        => /\ fpc[c] # "raised"
           /\ fpc[c] = "returned"
              => /\ l \notin SeqToSet(results[c])
                 /\ \A m \in LayerSet : Requested(c, m)
                 /\ l = "base" =>
                       \A i \in 1..Len(events[c]) :
                           (events[c][i].e = "request" /\ events[c][i].layer # "base")
                           => events[c][i].context = "Not available"

OwnKinds(c) == {step_kind[c][l] : l \in LayerSet}

Count(status) == Cardinality({c \in DOMAIN reported : reported[c] = status})

RowsOfRun(c) ==
    {r.identity_layer : r \in {x \in scores : x.country_id = c /\ x.scored_at = clock}}

\* C5 as claimed: when the Reasoning Service call of exactly one country
\* throws, the batch records N-1 successes and 1 failure.
C5_OneFailureRecorded ==
    (/\ mpc = "complete"
     /\ Cardinality({c \in Countries : "raises" \in OwnKinds(c)}) = 1
     /\ \A c \in Countries : OwnKinds(c) \subseteq {"good", "raises"})
    => Count("completed") = NumCountries - 1 /\ Count("failed") = 1

\* C5 as amended: a country whose Reasoning Service calls throw, and whose
\* other calls succeed, never fails: it is reported completed with the layers
\* of the throwing calls absent and the others persisted, whatever happens to
\* the other countries; a country none of whose calls fail persists all its
\* layers.
C5_ThrowIsAbsorbed ==
    \A c \in DOMAIN fpc :
        OwnKinds(c) \subseteq {"pending", "good", "raises"}
        => /\ fpc[c] # "raised"
           /\ reported[c] # "failed"
           /\ fpc[c] = "returned"
              => /\ SeqToSet(results[c]) = {l \in LayerSet : step_kind[c][l] = "good"}
                 /\ RowsOfRun(c) = {l \in LayerSet : step_kind[c][l] = "good"}

\* the batch is complete, one call of one country threw, both countries are
\* reported completed and the other persisted its three layers
C5_Witness ==
    /\ mpc = "complete"
    /\ \E c \in Countries :
          /\ "raises" \in OwnKinds(c)
          /\ reported[c] = "completed"
          /\ Len(results[c]) = Len(Layers) - 1
          /\ \A d \in Countries \ {c} :
                OwnKinds(d) = {"good"} /\ reported[d] = "completed" /\ RowsOfRun(d) = LayerSet

\* C6: within one run of analyze_country_layers the base layer's analysis
\* has finished before a dependent layer is requested, and no dependent
\* layer's row is written before the base layer's of the same run.
C6_BaseBeforeDependents ==
    \A c \in DOMAIN fpc : \A i \in 1..Len(events[c]) :
        events[c][i].layer # "base"
        => /\ step_kind[c]["base"] # "pending"
           /\ \E j \in 1..(i - 1) : events[c][j] = Request("base", None)
           /\ \A j \in 1..Len(events[c]) : events[c][j] = Persist("base") => j < i

\* base and a dependent layer both written in one run
C6_Witness ==
    \E c \in DOMAIN fpc :
        /\ \E i \in 1..Len(events[c]) : events[c][i] = Persist("base")
        /\ \E i \in 1..Len(events[c]) : events[c][i] = Persist("solo_women")

PreviousChanged == previous_headlines_file' # previous_headlines_file

\* C7: a trigger run overwrites previous_headlines.json only after triage
\* has returned, and after the full analysis has returned when triage
\* launched one; every other step, the run's end and its crash leave the
\* file as it was.
C7_PreviousSavedLast ==
    [][PreviousChanged
       => /\ tpc = "save"
          /\ tpc' = "done"
          /\ triage_response # NoCall
          /\ triage.should_trigger => success # Unset]_vars

\* a run that triggered, whose analysis failed, and that then saved the batch
C7_Witness ==
    /\ tpc = "done"
    /\ triage.should_trigger
    /\ success = "False"
    /\ previous_headlines_file.headlines = HeadlineList(all_headlines)

\* the decision the response opens with, if any
FirstLine(text) ==
    IF \E i \in 1..Len(text) : text[i] = NL
    THEN SubSeq(text, 1, (CHOOSE i \in 1..Len(text) :
                              text[i] = NL /\ \A k \in 1..(i - 1) : text[k] # NL) - 1)
    ELSE text

Recognisable(text) ==
    LET line == Upper(FirstLine(Strip(text))) IN
    StartsWith(line, THREAT) \/ StartsWith(line, SAFE)

\* C8: for a non-empty list of new headlines, when the triage request fails
\* or the first line of its response is no recognisable decision,
\* triage_headlines returns no-trigger.
C8_TriageFailsClosed ==
    (/\ triage_response # NoCall
     /\ new_headlines # <<>>
     /\ triage_response.kind # "text" \/ ~Recognisable(triage_response.text))
    => ~triage.should_trigger

\* the response "NO THREAT": no decision, no trigger
C8_Witness ==
    /\ triage_response = Text(<<"N", "O", " ">> \o THREAT)
    /\ new_headlines # <<>>
    /\ ~triage.should_trigger
    /\ tpc = "save"

\* get_new_headlines has returned and previous_headlines.json is as it read it
DeltaTaken == tpc \in {"triage", "analysis", "save"} \/ (tpc = "exited" /\ all_headlines # <<>>)

\* C9: with a readable previous batch, get_new_headlines returns the strings
\* of the current batch that are not in the previous batch, in the current
\* batch's order.
C9_DeltaIsStableFilter ==
    (/\ DeltaTaken
     /\ previous_headlines_file.kind = "record"
     /\ previous_headlines_file.headlines.k = "list")
    => LET previous == SeqToSet(previous_headlines_file.headlines.v)
           keep(h) == h \notin previous
       IN new_headlines = SelectSeq(all_headlines, keep)

\* current [a, b, c], previous [b]: [a, c]
C9_Witness ==
    /\ tpc = "triage"
    /\ all_headlines = <<"a", "b", "c">>
    /\ previous_headlines_file.kind = "record"
    /\ previous_headlines_file.headlines = HeadlineList(<<"b">>)
    /\ new_headlines = <<"a", "c">>

Unreadable(file) ==
    \/ file.kind \in {"missing", "empty", "notjson", "nonrecord"}
    \/ file.kind = "record" /\ file.headlines.k # "list"

\* C10: when previous_headlines.json is missing or corrupt in any way (no
\* JSON, or JSON that is no record with a list of headlines),
\* get_new_headlines does not fail and returns the whole current batch.
C10_CorruptPreviousIsNoPrevious ==
    (Unreadable(previous_headlines_file) /\ all_headlines # <<>>)
    => /\ failure # "get_new_headlines"
       /\ DeltaTaken => new_headlines = all_headlines

\* the record calculate_total_score is said to score: each missing category
\* and each value that is no rating label read as GREEN
Defaulted(cs) ==
    [c \in Categories |-> IF c \in DOMAIN cs /\ cs[c] \in Labels THEN cs[c] ELSE "GREEN"]

\* C11: calculate_total_score is total: for every record, also one with
\* categories missing or holding values that are no rating label, it does
\* not fail and returns the rating of the record with each such category
\* read as GREEN.
C11_ScoreIsTotal ==
    Scored => /\ total_score \in Labels
              /\ total_score = calculate_total_score(Defaulted(category_scores))

\* the store lookup failed although the newest score is at most 24 hours old
\* and the headline batch is older than it
LookupFailedOnFreshScore ==
    /\ ~store_ok
    /\ ScoredAtOf(scores, 1) # {}
    /\ (clock - Latest(ScoredAtOf(scores, 1))) * TickHours <= 24
    /\ latest_headlines_file.kind = "record"
    /\ latest_headlines_file.timestamp.k = "aware"
    /\ latest_headlines_file.timestamp.t <= Latest(ScoredAtOf(scores, 1))

\* C13: when the lookup of the country's last score fails,
\* should_analyze_country answers analyze, whatever the rows of the store,
\* the time and the headline batch.
C13_LookupFailureAnalyzes ==
    (decision # Undecided /\ ~store_ok) => decision.analyze

\* the lookup failed where a working store would have answered skip
C13_Witness ==
    /\ LookupFailedOnFreshScore
    /\ decision # Undecided
    /\ decision.analyze

\* C14: with a score at most 24 hours old and no headline batch record,
\* should_analyze_country answers skip.
C14_NoBatchIsNoNewData ==
    (/\ decision # Undecided
     /\ store_ok
     /\ ScoredAtOf(scores, 1) # {}
     /\ (clock - Latest(ScoredAtOf(scores, 1))) * TickHours <= 24
     /\ latest_headlines_file.kind = "missing")
    => ~decision.analyze

\* C12: a layer result that the verification blocks is returned absent and
\* no row of it is written; when the verification call itself fails, the
\* result is kept and its row is written.
C12_BlockedIsAbsentFailedIsKept ==
    \A c \in DOMAIN fpc : \A l \in LayerSet :
        /\ step_kind[c][l] \in Blocking
           => l \notin SeqToSet(results[c]) /\ l \notin RowsOfRun(c)
        /\ step_kind[c][l] = "verify raises"
           => l \in SeqToSet(results[c]) /\ l \in RowsOfRun(c)

Finished(c) == fpc[c] \in {"returned", "raised"}

\* C16: main declares the batch complete only when every submitted country's
\* analyze_country_layers has finished and its future was collected, and
\* main always gets there: a submitted country is started when the pool is
\* free, a finished country can be collected whatever the other countries
\* did, raised or not, and once all are collected main completes.
C16_CompleteAfterAllCollected ==
    /\ mpc = "complete" => \A c \in Countries : Finished(c) /\ reported[c] # "pending"
    /\ \A c \in Countries : (Finished(c) /\ reported[c] = "pending") => ENABLED Collect(c)
    /\ \A c \in Countries :
          (fpc[c] = "submitted" /\ \A d \in Countries : ~InWorker(d)) => ENABLED StartCountry(c)
    /\ ((\A c \in Countries : reported[c] # "pending") /\ mpc # "complete") => ENABLED Complete

\* the batch is complete although one country's unit of work raised; the
\* other country was collected with its three layers persisted
C16_Witness ==
    /\ mpc = "complete"
    /\ \E c \in Countries :
          /\ fpc[c] = "raised"
          /\ reported[c] = "failed"
          /\ \A d \in Countries \ {c} : reported[d] = "completed" /\ RowsOfRun(d) = LayerSet

RowsOfKey(table, c, l) == {r \in table : r.country_id = c /\ r.identity_layer = l}

\* C17: after every write the store holds at most one row for each pair of
\* country and layer, also when the pair had a row before, and the rows of
\* a pair change only in a step of that country's worker on that layer.
C17_OneRowPerKey ==
    [][scores' # scores
       => \A c \in Countries : \A l \in LayerSet :
             /\ Cardinality(RowsOfKey(scores', c, l)) <= 1
             /\ RowsOfKey(scores', c, l) # RowsOfKey(scores, c, l) => fpc[c] = l]_vars

\* the base row of country 1 was replaced by this run's, the rows of its
\* other layers are the old ones
C17_Witness ==
    /\ RowsOfKey(scores, 1, "base") = {Row(1, "base", "GREEN", clock)}
    /\ \A l \in LayerSet \ {"base"} : RowsOfKey(scores, 1, l) = {Row(1, l, "YELLOW", 0)}

TriageReturned == tpc \in {"analysis", "save"}

\* C18 as claimed: triage_headlines of the empty list returns no-trigger
\* with the reason "no headlines", and calls the Reasoning Service not once.
C18_EmptyListNoHeadlines ==
    (TriageReturned /\ new_headlines = <<>>)
    => /\ triage = Verdict(FALSE, <<"no headlines">>)
       /\ triage_calls = <<>>
       /\ triage_response = NoCall

\* C18 as amended: triage_headlines of the empty list returns no-trigger
\* with the reason "No headlines to analyze", and calls the Reasoning
\* Service not once.
C18_EmptyListNoCall ==
    (TriageReturned /\ new_headlines = <<>>)
    => /\ triage = Verdict(FALSE, <<"No headlines to analyze">>)
       /\ triage_calls = <<>>
       /\ triage_response = NoCall

\* triage_headlines has returned for the empty list: main goes on to save
C18_Witness ==
    /\ tpc = "save"
    /\ new_headlines = <<>>
    /\ ~triage.should_trigger
    /\ triage_calls = <<>>

\* the headlines a next run would find new, whatever batch it loads
NextDeltas(previous) ==
    {get_new_headlines(b, previous).value : b \in (Batches \cup {LongBatch}) \ {<<>>}}

\* C20: a trigger run past get_new_headlines goes on to triage, from there,
\* whatever triage returned and whatever the analysis it launched returned,
\* to save_current_headlines_as_previous, and ends; unless the write fails,
\* previous_headlines.json then holds the whole current batch, so that no
\* headline of it, shown to triage or not, is in the delta of a next run.
\* The steps before triage, and the run's exit there, leave the file as it
\* was.  Only the process being killed keeps a run past triage from saving.
C20_SavedOnceWhateverTheOutcome ==
    [][/\ tpc = "triage" => tpc' \in {"analysis", "save", "raised"}
       /\ tpc = "analysis" => tpc' \in {"save", "raised"}
       /\ tpc = "save" => tpc' \in {"done", "raised"}
       /\ (tpc \in {"triage", "analysis", "save"} /\ tpc' = "raised") => failure' = "killed"
       /\ (tpc = "save" /\ tpc' = "done" /\ failure' = "none")
          => /\ previous_headlines_file' =
                   RecordFile([k |-> "aware", t |-> clock], HeadlineList(all_headlines))
             /\ \A delta \in NextDeltas(previous_headlines_file') :
                   SeqToSet(delta) \cap SeqToSet(all_headlines) = {}
       /\ tpc # "save" => previous_headlines_file' = previous_headlines_file]_vars

\* the triage request failed for a batch of which triage was shown all but
\* the last headline; the whole batch was saved
C20_Witness ==
    /\ tpc = "done"
    /\ failure = "none"
    /\ all_headlines = LongBatch
    /\ triage_response = ServiceRaises
    /\ triage_calls = <<SubSeq(LongBatch, 1, TriageCap)>>
    /\ previous_headlines_file.headlines = HeadlineList(LongBatch)

\* C19: when a timeout expires during a full analysis run, at most the one
\* unit of work whose call timed out fails; the fan-out is not cancelled and
\* the work of the other countries goes on to its end.
C19_TimeoutFailsOneUnit ==
    success = "False" => Cardinality({c \in Countries : fpc[c] = "killed"}) <= 1

\* C15: a country one of whose layers ended its last analysis absent because
\* the Reasoning Service call failed is analysed again by the next
\* invocation of main, whatever became of its other layers: the filter loop
\* does not skip it.
C15_AbsentLayerIsRetried ==
    \A c \in DOMAIN fpc :
        fpc[c] = "skipped" => \A l \in LayerSet : step_kind[c][l] # "raises"

\* the records that rate one category higher than cs and the others alike
RaisedOnce(cs) ==
    UNION {{[cs EXCEPT ![c] = label] : label \in {x \in Labels : RankOf(x) > RankOf(cs[c])}} :
              c \in Categories}

\* C21: calculate_total_score is monotone: rating one category of a
\* CategoryScores record higher, by one label or more, never lowers the
\* composite, also where a veto category rises from ORANGE to RED and the
\* veto rule takes over from the weighted mean (the pointwise order of the
\* records is the closure of these raises); and the composite is PURPLE
\* only if some veto category is PURPLE.
C21_Monotone ==
    (Scored /\ WellFormed(category_scores))
    => /\ \A t \in RaisedOnce(category_scores) :
             RankOf(total_score) <= RankOf(calculate_total_score(t))
       /\ total_score = "PURPLE" => \E c \in VetoSet : category_scores[c] = "PURPLE"

\* every veto category ORANGE and the others PURPLE: the weighted mean gives
\* RED, and so does the veto rule once armed_conflict is rated RED
C21_Witness ==
    /\ category_scores =
          [c \in Categories |-> IF c \in VetoSet THEN "ORANGE" ELSE "PURPLE"]
    /\ total_score = "RED"
    /\ calculate_total_score([category_scores EXCEPT !["armed_conflict"] = "RED"]) = "RED"

====
